---------------------------- MODULE Spec2Model ----------------------------
(***************************************************************************)
(* Model of src/simulation.py: the IRON_MAN_PMAC engine, its three leaf    *)
(* models (YBCO_Coils, MHD_Plasma, PMAC_Controller) and the script that    *)
(* drives it.                                                              *)
(*                                                                         *)
(* Units.  The source computes in IEEE doubles; the model computes in      *)
(* integers, each quantity in a fixed unit:                                *)
(*   time            microseconds      (dt = 100, T_WINDOW = 180000)       *)
(*   field           centitesla        (B_MAX = 200)                       *)
(*   density         1e12 m^-3         (N_E0 = 10000)                      *)
(*   power           10 W              (COIL_POWER = 12000)                *)
(*   pure fractions  1/ONE             (ONE = 10000)                       *)
(* Divisions round towards minus infinity where the source rounds to the   *)
(* nearest double.  On the time grid i*dt the comparisons of the source    *)
(* (t % T_WINDOW < dt, t < COIL_RAMP_TIME) take the same value in doubles  *)
(* and in integers for every index below 21601.                            *)
(***************************************************************************)
EXTENDS Integers, Sequences, FiniteSets

\* ---------------------------------------------------------------- constants
ALPHA_YBCO     == 23        \* 0.023, in 1/1000
MU_0           == 12566     \* 4*pi*1e-7 H/m, in 1e-10 H/m
B_MAX          == 200       \* 2.0 T, in centitesla
T_WINDOW       == 180000    \* 0.180 s, in microseconds
N_E0           == 10000     \* 1e16 m^-3, in 1e12 m^-3
CEP_TARGET     == 13        \* 0.13 m, in centimetres
COIL_RAMP_TIME == 26000     \* 0.026 s, in microseconds
COIL_POWER     == 12000     \* 120e3 W, in 10 W
CONTROL_LOOP   == 19000     \* 0.019 s, in microseconds
dt             == 100       \* 1e-4 s, in microseconds
NUM_SENSORS    == 64        \* size of one sensor draw
ONE            == 10000     \* fixed-point representation of 1.0
INV_E          == 3679      \* exp(-1) in 1/ONE

\* ------------------------------------------------------------------- bounds
MaxSteps     == 1803   \* samples of the longest grid (passes the window at 1800)
MaxHalfSteps == 5      \* short durations -dt/2, 0, dt/2, ... in half steps of dt
MaxSeed      == 3      \* seeds 0..MaxSeed of the noise generator
RngBlocks    == 4      \* the noise generator has RngBlocks * NUM_SENSORS states
SeedStride   == 48     \* seed k starts the generator in state k * SeedStride
MaxPairSteps == 192    \* samples of the grid run with every seed, and run twice
MaxEntropy   == 1      \* values 0..MaxEntropy of the unseeded process state
Chunk        == 16     \* loop iterations a single step of the model may take

HalfDt    == dt \div 2
SmallSims == { k * HalfDt : k \in -1..MaxHalfSteps }
LongSim   == MaxSteps * dt - HalfDt
PairSim   == MaxPairSteps * dt - HalfDt
SimTimes  == SmallSims \cup {PairSim}
Seed(k)   == (k * SeedStride) % (RngBlocks * NUM_SENSORS)
Seeds     == { Seed(k) : k \in 0..MaxSeed }

VARIABLES
  sim_time,        \* self.sim_time
  B_field,         \* self.B_field, a function on 0..N-1
  n_e,             \* self.n_e
  power,           \* self.power
  guidance_clear,  \* self.guidance_clear
  blackout,        \* self.blackout
  ai_command,      \* self.ai_command
  metrics,         \* self.metrics (exists = FALSE: the attribute is not set)
  rng,             \* state of the process-wide generator np.random
  pc,              \* "idle", "loop" (inside run_simulation), "raised"
  i,               \* loop index of run_simulation
  script,          \* position of the driving script
  raised,          \* name of the exception that ended the process, or "none"
  printed,         \* print_results has written its block
  plotted,         \* plot_results has shown its figure
  metricsBy,       \* "none", "run" or "direct": the caller of calculate_metrics
  rng0,            \* generator state when the current run_simulation began
  prev,            \* outputs of the previous run of the script, if any
  osEntropy        \* state of the process the seed does not fix (clock, OS entropy)

vars == << sim_time, B_field, n_e, power, guidance_clear, blackout, ai_command,
           metrics, rng, pc, i, script, raised, printed, plotted, metricsBy,
           rng0, prev, osEntropy >>

\* ----------------------------------------------------------------- helpers
Min(a, b) == IF a < b THEN a ELSE b
Max(a, b) == IF a > b THEN a ELSE b

\* np.clip(x, lo, hi)
Clip(x, lo, hi) == Max(lo, Min(x, hi))

\* ArangeLen with the end point included, as np.linspace would count it
ArangeLenInclusive(stop, step) ==
  IF stop <= 0 THEN 0 ELSE ((stop + step - 1) \div step) + 1

\* len(np.arange(0, stop, step)) = max(0, ceil(stop/step))
ArangeLen(stop, step) ==
  IF stop <= 0 THEN 0 ELSE (stop + step - 1) \div step

\* self.t[k]
TimeAt(k) == k * dt

\* len(self.t)
N == ArangeLen(sim_time, dt)

Idx == 0..(N - 1)

\* ---------------------------------------------------------------- YBCO_Coils
ramp_field(t) ==
  IF t < COIL_RAMP_TIME THEN (B_MAX * t) \div COIL_RAMP_TIME ELSE B_MAX

\* power_consumption with the ratio B/B_MAX squared in the numerator only
power_consumptionUnscaled(t) ==
  LET B == ramp_field(t)
  IN  (COIL_POWER * B * B) \div B_MAX

power_consumption(t) ==
  LET B == ramp_field(t)
  IN  (COIL_POWER * B * B) \div (B_MAX * B_MAX)

\* ---------------------------------------------------------------- MHD_Plasma
\* v * exp(-x) for an integer x >= 0, v in 1/ONE
RECURSIVE Decay(_, _)
Decay(v, x) ==
  IF x = 0 \/ v = 0 THEN v ELSE Decay((v * INV_E) \div ONE, x - 1)

\* np.exp(-x), in 1/ONE
ExpNeg(x) == Decay(ONE, x)

density_reduction(n_e_prev, B) ==
  LET x == (ALPHA_YBCO * B * B * (T_WINDOW \div 1000)) \div MU_0
      reduction_factor == ONE - ExpNeg(x)
  IN  (n_e_prev * (ONE - reduction_factor)) \div ONE

\* ----------------------------------------------------------- PMAC_Controller
\* The process-wide generator behind np.random is modelled as a counter over
\* RngMod states; a draw reads the sample of the current state and moves on.
RngMod == RngBlocks * NUM_SENSORS

\* The generator state after k draws, starting from g
RngAfter(g, k) == (g + k) % RngMod

\* The sample a generator state yields.  A normal distribution has unbounded
\* support; the model draws from 0 .. 2*N_E0.
Sample(g) == ((g \div NUM_SENSORS) * 2 * N_E0) \div (RngBlocks - 1)

\* sensor_read drawing from a source the seed does not fix
sensor_readUnseeded(g) ==
  [ j \in 1..NUM_SENSORS |-> Sample(RngAfter(g + NUM_SENSORS * osEntropy, j - 1)) ]

\* sensor_read(): NUM_SENSORS samples, the generator advanced once per sample
sensor_read(g) == [ j \in 1..NUM_SENSORS |-> Sample(RngAfter(g, j - 1)) ]

\* f[lo] + ... + f[hi], the range split in halves
RECURSIVE SumRange(_, _, _)
SumRange(f, lo, hi) ==
  IF lo > hi THEN 0
  ELSE IF lo = hi THEN f[lo]
  ELSE SumRange(f, lo, (lo + hi) \div 2) + SumRange(f, ((lo + hi) \div 2) + 1, hi)

\* the largest of f[lo], ..., f[hi] (lo <= hi)
RECURSIVE MaxRange(_, _, _)
MaxRange(f, lo, hi) ==
  IF lo = hi THEN f[lo]
  ELSE Max(MaxRange(f, lo, (lo + hi) \div 2),
           MaxRange(f, ((lo + hi) \div 2) + 1, hi))

\* np.mean
Mean(sensors) == SumRange(sensors, 1, Len(sensors)) \div Len(sensors)

\* ai_decision(sensors), in 1/ONE
ai_decision(sensors) ==
  LET n_e_mean == Mean(sensors)
      error    == ((N_E0 - n_e_mean) * ONE) \div N_E0
  IN  Clip((error * 12) \div 10, 0, ONE)

\* ------------------------------------------------------------ IRON_MAN_PMAC
NoMetrics ==
  [ exists |-> FALSE, n_e_reduction |-> 0, guidance_clear |-> 0,
    blackout_time |-> 0, peak_power |-> 0, cep |-> 0 ]

NoPrev == [ exists |-> FALSE ]

\* (1 - n/N_E0)*100 >= 68
ReductionAtLeast68(n) == (N_E0 - n) * 100 >= 68 * N_E0

\* int(CONTROL_LOOP/self.dt)
ControlEvery == CONTROL_LOOP \div dt

\* __init__(sim_time): the arrays the constructor allocates
Construct(st) ==
  LET len == ArangeLen(st, dt)
      ix  == 0..(len - 1)
  IN  /\ sim_time' = st
      /\ B_field' = [ k \in ix |-> 0 ]
      /\ n_e' = [ k \in ix |-> N_E0 ]
      /\ power' = [ k \in ix |-> 0 ]
      /\ guidance_clear' = [ k \in ix |-> 0 ]
      /\ blackout' = [ k \in ix |-> 0 ]
      /\ ai_command' = [ k \in ix |-> 0 ]
      /\ metrics' = NoMetrics

InitWith(durations, seeds) ==
  /\ sim_time \in durations
  /\ B_field = [ k \in Idx |-> 0 ]
  /\ n_e = [ k \in Idx |-> N_E0 ]
  /\ power = [ k \in Idx |-> 0 ]
  /\ guidance_clear = [ k \in Idx |-> 0 ]
  /\ blackout = [ k \in Idx |-> 0 ]
  /\ ai_command = [ k \in Idx |-> 0 ]
  /\ metrics = NoMetrics
  /\ rng \in seeds
  /\ pc = "idle"
  /\ i = 0
  /\ raised = "none"
  /\ printed = FALSE
  /\ plotted = FALSE
  /\ metricsBy = "none"
  /\ rng0 = rng
  /\ prev = NoPrev
  /\ osEntropy = 0

\* FieldAt with a fresh ramp in every cycle window
FieldAtReRamp(k) == ramp_field(TimeAt(k) % T_WINDOW)

\* The field the loop writes at index k
FieldAt(k) ==
  LET t == TimeAt(k)
  IN  IF t % T_WINDOW < dt
        THEN ramp_field(t % T_WINDOW)
        ELSE ramp_field(T_WINDOW)

\* Entry of run_simulation: enumerate(self.t) starts at index 0
EnterRun ==
  /\ pc = "idle"
  /\ pc' = "loop"
  /\ i' = 0
  /\ rng0' = rng
  /\ UNCHANGED << sim_time, B_field, n_e, power, guidance_clear, blackout,
                  ai_command, metrics, rng, raised, printed, plotted, metricsBy,
                  prev, osEntropy >>

\* CommandSeries with the last command carried forward between invocations
CommandSeriesCarry(cmd, k, g) ==
  IF k % ControlEvery = 0
    THEN [ cmd EXCEPT ![k] = ai_decision(sensor_read(g)) ]
    ELSE [ cmd EXCEPT ![k] = cmd[k - 1] ]

\* Lines 67-69: the command series after the step at index k, the generator
\* in state g
CommandSeries(cmd, k, g) ==
  IF k % ControlEvery = 0
    THEN [ cmd EXCEPT ![k] = ai_decision(sensor_read(g)) ]
    ELSE cmd

\* Lines 67-68: the generator after the step at index k
RngAfterStep(k, g) ==
  IF k % ControlEvery = 0 THEN RngAfter(g, NUM_SENSORS) ELSE g

\* DensityAt reading the baseline sample instead of the previous one
DensityAtFromBaseline(dens, k, B) ==
  IF k > 0 THEN density_reduction(dens[0], B) ELSE dens[k]

\* Lines 71-72: the density the step at index k leaves at n_e[k]
DensityAt(dens, k, B) ==
  IF k > 0 THEN density_reduction(dens[k - 1], B) ELSE dens[k]

\* PowerAt evaluated at the cycle phase instead of the absolute time
PowerAtPhase(k) == power_consumption(TimeAt(k) % T_WINDOW)

\* Line 74: the power written at index k
PowerAt(k) == power_consumption(TimeAt(k))

\* Lines 75-76: 1 if reduction >= 68 else 0
ClearFlag(n) == IF ReductionAtLeast68(n) THEN 1 ELSE 0

\* BlackoutFlag without the complement
BlackoutFlagSame(clear) == clear

\* Line 77
BlackoutFlag(clear) == 1 - clear

\* The series and the generator, as the loop body reads and writes them
Series ==
  [ B_field |-> B_field, n_e |-> n_e, power |-> power,
    guidance_clear |-> guidance_clear, blackout |-> blackout,
    ai_command |-> ai_command, rng |-> rng ]

\* Lines 62-77: the body of the loop for index k, applied to the series st
LoopBody(st, k) ==
  LET B    == FieldAt(k)
      dens == DensityAt(st.n_e, k, B)
  IN  [ B_field        |-> [ st.B_field EXCEPT ![k] = B ],
        ai_command     |-> CommandSeries(st.ai_command, k, st.rng),
        rng            |-> RngAfterStep(k, st.rng),
        n_e            |-> [ st.n_e EXCEPT ![k] = dens ],
        power          |-> [ st.power EXCEPT ![k] = PowerAt(k) ],
        guidance_clear |-> [ st.guidance_clear EXCEPT ![k] = ClearFlag(dens) ],
        blackout       |-> [ st.blackout EXCEPT ![k] = BlackoutFlag(ClearFlag(dens)) ] ]

\* Line 61: count iterations of the loop in a row, from index k
RECURSIVE Iterate(_, _, _)
Iterate(st, k, count) ==
  IF count = 0 THEN st ELSE Iterate(LoopBody(st, k), k + 1, count - 1)

\* The loop of run_simulation from index i on.  Nothing interrupts the loop,
\* so a step of the model is one iteration or Chunk iterations in a row; the
\* states reached are those of single iterations.
LoopStep ==
  /\ pc = "loop"
  /\ \E count \in {1, Chunk} :
       /\ i + count <= N
       /\ LET st == Iterate(Series, i, count)
          IN  /\ B_field' = st.B_field
              /\ ai_command' = st.ai_command
              /\ rng' = st.rng
              /\ n_e' = st.n_e
              /\ power' = st.power
              /\ guidance_clear' = st.guidance_clear
              /\ blackout' = st.blackout
       /\ i' = i + count
  /\ UNCHANGED << sim_time, metrics, pc, script, raised, printed, plotted,
                  metricsBy, rng0, prev, osEntropy >>

\* The exception calculate_metrics raises, or "none"
MetricsError ==
  IF N = 0 THEN "IndexError"                  \* self.n_e[-1] on an empty array
  ELSE "none"

\* The dictionary calculate_metrics builds (N > 0)
MetricsValue ==
  LET clear_time == SumRange(guidance_clear, 0, N - 1) * dt
  IN  [ exists         |-> TRUE,
        n_e_reduction  |-> ((N_E0 - n_e[N - 1]) * 100 * 10) \div N_E0,   \* in 1/10 percent
        guidance_clear |-> (clear_time * 100 * 10) \div sim_time,   \* in 1/10 percent
        blackout_time  |-> sim_time - clear_time,
        peak_power     |-> MaxRange(power, 0, N - 1),
        cep            |-> CEP_TARGET ]

\* calculate_metrics(), called by `who`
calculate_metrics(who) ==
  IF MetricsError = "none"
    THEN /\ metrics' = MetricsValue
         /\ metricsBy' = who
         /\ pc' = "idle"
         /\ raised' = "none"
    ELSE /\ pc' = "raised"
         /\ raised' = MetricsError
         /\ UNCHANGED << metrics, metricsBy >>

\* LoopExit leaving the loop before its last index is processed
LoopExitEarly ==
  /\ pc = "loop"
  /\ i + 1 >= N
  /\ calculate_metrics("run")
  /\ UNCHANGED << sim_time, B_field, n_e, power, guidance_clear, blackout,
                  ai_command, rng, i, script, printed, plotted, rng0, prev,
                  osEntropy >>

\* End of the loop of run_simulation: calculate_metrics, return self
LoopExit ==
  /\ pc = "loop"
  /\ i = N
  /\ calculate_metrics("run")
  /\ UNCHANGED << sim_time, B_field, n_e, power, guidance_clear, blackout,
                  ai_command, rng, i, script, printed, plotted, rng0, prev,
                  osEntropy >>

\* print_results(): reads self.metrics
print_results ==
  /\ pc = "idle"
  /\ IF metrics.exists
       THEN /\ printed' = TRUE
            /\ UNCHANGED << pc, raised >>
       ELSE /\ pc' = "raised"
            /\ raised' = "AttributeError"
            /\ UNCHANGED printed
  /\ UNCHANGED << sim_time, B_field, n_e, power, guidance_clear, blackout,
                  ai_command, metrics, rng, i, plotted, metricsBy, rng0, prev,
                  osEntropy >>

\* plot_results(): reads the series only
plot_results ==
  /\ pc = "idle"
  /\ plotted' = TRUE
  /\ UNCHANGED << sim_time, B_field, n_e, power, guidance_clear, blackout,
                  ai_command, metrics, rng, pc, i, raised, printed, metricsBy,
                  rng0, prev, osEntropy >>

\* ------------------------------------------------- the script (__main__)
\* Lines 119-122: construct, run_simulation, print_results, plot_results
\* The longest grid is run with one seed, the others with every seed.
Init ==
  /\ InitWith(SimTimes, Seeds) \/ InitWith({LongSim}, {Seed(0)})
  /\ script = "run"

MainRun   == script = "run"   /\ EnterRun      /\ script' = "print"
MainPrint == script = "print" /\ print_results /\ script' = "plot"
MainPlot  == script = "plot"  /\ plot_results  /\ script' = "done"

Next == MainRun \/ LoopStep \/ LoopExit \/ MainPrint \/ MainPlot

Spec == Init /\ [][Next]_vars

\* ------------------------------------------ the script, started a second time
\* The process is started again with the same duration: the caller seeds
\* np.random, the rest of the process state is whatever the system gives it.
\* prev keeps what the first process computed.
Outputs ==
  [ exists |-> TRUE, rng0 |-> rng0, B_field |-> B_field, n_e |-> n_e,
    power |-> power, guidance_clear |-> guidance_clear, blackout |-> blackout,
    ai_command |-> ai_command, metrics |-> metrics ]

Restart ==
  /\ script = "done"
  /\ ~prev.exists
  /\ prev' = Outputs
  /\ \E sd \in Seeds : rng' = sd /\ rng0' = sd
  /\ osEntropy' \in 0..MaxEntropy
  /\ Construct(sim_time)
  /\ pc' = "idle"
  /\ i' = 0
  /\ script' = "run"
  /\ raised' = "none"
  /\ printed' = FALSE
  /\ plotted' = FALSE
  /\ metricsBy' = "none"

InitTwoRuns == InitWith({PairSim}, Seeds) /\ script = "run"

NextTwoRuns == Next \/ Restart

SpecTwoRuns == InitTwoRuns /\ [][NextTwoRuns]_vars

\* ---------------------------------------- a caller free to call any method
CallRun     == script = "caller" /\ EnterRun      /\ UNCHANGED script
CallPrint   == script = "caller" /\ print_results /\ UNCHANGED script
CallPlot    == script = "caller" /\ plot_results  /\ UNCHANGED script
CallMetrics ==
  /\ script = "caller"
  /\ pc = "idle"
  /\ calculate_metrics("direct")
  /\ UNCHANGED << sim_time, B_field, n_e, power, guidance_clear, blackout,
                  ai_command, rng, i, script, printed, plotted, rng0, prev,
                  osEntropy >>

InitCalls == InitWith(SmallSims, Seeds) /\ script = "caller"

NextCalls == CallRun \/ LoopStep \/ LoopExit \/ CallMetrics \/ CallPrint \/ CallPlot

SpecCalls == InitCalls /\ [][NextCalls]_vars

\* ==================================================================== claims
\* run_simulation has returned: the loop is over and calculate_metrics succeeded
RunReturned == pc = "idle" /\ metricsBy = "run" /\ i = N

\* Indices the loop has written so far (under Spec and SpecTwoRuns each
\* engine runs once, so these are the indices below i)
Processed == 0..(i - 1)

\* round(CONTROL_LOOP/dt), halves rounded up
RoundedCadence == (2 * CONTROL_LOOP + dt) \div (2 * dt)

\* samples per cycle window
WindowSteps == T_WINDOW \div dt

\* C1: once run_simulation has returned, at every index guidance_clear and
\* blackout are 0 or 1 and add up to 1.
C1_FlagsComplementary ==
  RunReturned =>
    \A k \in Idx :
      /\ guidance_clear[k] \in {0, 1}
      /\ blackout[k] \in {0, 1}
      /\ guidance_clear[k] + blackout[k] = 1

C1_Witness ==
  /\ RunReturned
  /\ \E k \in Idx : guidance_clear[k] = 1 /\ blackout[k] = 0
  /\ \E k \in Idx : guidance_clear[k] = 0 /\ blackout[k] = 1

\* C2: once run_simulation has returned, density[0] is the baseline N_E0 and
\* every later density is at most its predecessor and is density_reduction of
\* the predecessor and the field of its own index.
C2_DensityNonIncreasing ==
  RunReturned =>
    /\ n_e[0] = N_E0
    /\ \A k \in Idx \ {0} :
         /\ n_e[k] <= n_e[k - 1]
         /\ n_e[k] = density_reduction(n_e[k - 1], B_field[k])

C2_Witness ==
  /\ RunReturned
  /\ N > WindowSteps
  /\ n_e[1] < n_e[0]
  /\ n_e[WindowSteps] = n_e[WindowSteps - 1]

\* C3: in every state, before, during and after run_simulation, every power
\* sample lies in [0, COIL_POWER].
C3_PowerBounded ==
  \A k \in Idx : 0 <= power[k] /\ power[k] <= COIL_POWER

C3_Witness ==
  /\ pc = "loop"
  /\ \E k \in Processed : power[k] = COIL_POWER
  /\ \E k \in Processed : 0 < power[k] /\ power[k] < COIL_POWER

\* C4: with sim_time below dt, once run_simulation is over no exception has
\* been raised and the metrics exist.
C4_SmallDurationProducesMetrics ==
  (sim_time < dt /\ script # "run" /\ pc # "loop") =>
    (raised = "none" /\ metrics.exists)

C8_SparseCommands ==
  /\ rng = RngAfter(rng0, NUM_SENSORS * ((i + RoundedCadence - 1) \div RoundedCadence))
  /\ \A k \in Idx :
       /\ 0 <= ai_command[k] /\ ai_command[k] <= ONE
       /\ (k % RoundedCadence # 0 \/ k >= i) => ai_command[k] = 0
       /\ (k % RoundedCadence = 0 /\ k < i) =>
            ai_command[k] =
              ai_decision(sensor_read(RngAfter(rng0, NUM_SENSORS * (k \div RoundedCadence))))

C8_Witness ==
  /\ i > 2 * RoundedCadence
  /\ ai_command[0] = ONE
  /\ 0 < ai_command[RoundedCadence] /\ ai_command[RoundedCadence] < ONE
  /\ ai_command[RoundedCadence - 1] = 0
  /\ ai_command[RoundedCadence + 1] = 0

\* C9: every index written so far whose time is at least COIL_RAMP_TIME holds
\* COIL_POWER, also where the field has reset at the start of a later cycle
\* window, and the power series written so far never decreases.
C9_PowerFollowsAbsoluteTime ==
  \A k \in Processed :
    /\ TimeAt(k) >= COIL_RAMP_TIME => power[k] = COIL_POWER
    /\ k > 0 => power[k - 1] <= power[k]

C9_Witness ==
  /\ i > WindowSteps
  /\ B_field[WindowSteps] < B_MAX
  /\ power[WindowSteps] = COIL_POWER
  /\ power[1] < COIL_POWER

\* C10: for sim_time > 0, once run_simulation has returned, clear_time plus
\* blackout_time is sim_time, blackout_time is not negative and the
\* guidance-clear percentage lies in [0, 100]; index 0 is never clear and the
\* grid has ceil(sim_time/dt) samples.
C10_MetricsConsistent ==
  (sim_time > 0 /\ RunReturned) =>
    LET clear_time == Cardinality({ k \in Idx : guidance_clear[k] = 1 }) * dt
    IN  /\ clear_time + metrics.blackout_time = sim_time
        /\ metrics.blackout_time >= 0
        /\ 0 <= metrics.guidance_clear /\ metrics.guidance_clear <= 100 * 10
        /\ clear_time <= sim_time
        /\ guidance_clear[0] = 0
        /\ (N - 1) * dt < sim_time /\ sim_time <= N * dt

C10_Witness ==
  /\ RunReturned
  /\ sim_time % dt # 0
  /\ N * dt > sim_time
  /\ guidance_clear[N - 1] = 1
  /\ metrics.blackout_time > 0
  /\ metrics.guidance_clear > 0

\* C5: when the script has run twice with the same duration and the generator
\* in the same state at the start of both runs, the second run's series and
\* metrics equal the first run's.
C5_SameSeedSameOutputs ==
  (prev.exists /\ RunReturned /\ rng0 = prev.rng0) =>
    /\ B_field = prev.B_field
    /\ n_e = prev.n_e
    /\ power = prev.power
    /\ guidance_clear = prev.guidance_clear
    /\ blackout = prev.blackout
    /\ ai_command = prev.ai_command
    /\ metrics = prev.metrics

C5_Witness ==
  /\ prev.exists
  /\ RunReturned
  /\ rng0 = prev.rng0
  /\ osEntropy # 0
  /\ \E k \in Idx : ai_command[k] > 0

\* C6 as claimed: under any sequence of calls, metrics exist only when the
\* loop has processed every index, and nothing is reported before metrics
\* exist.
C6_StrictPhases ==
  /\ metrics.exists => (i = N /\ pc # "loop")
  /\ (printed \/ plotted) => metrics.exists

\* C6 as amended: run_simulation computes its metrics only once its loop has
\* processed every index, and print_results reports only when metrics exist.
C6_RunThenMetricsThenPrint ==
  [][ /\ (pc = "loop" /\ pc' = "idle" /\ metricsBy' = "run") => (i = N /\ i' = N)
      /\ metrics # metrics' => (pc = "idle" \/ i = N)
      /\ printed' => metrics'.exists ]_vars

C6_Witness ==
  /\ script = "caller"
  /\ printed
  /\ RunReturned
  /\ N >= 2

TypeOK ==
  /\ pc \in {"idle", "loop", "raised"}
  /\ i \in 0..N
  /\ DOMAIN n_e = Idx

=============================================================================
